---- MODULE Spec2Model ----
(***************************************************************************)
(* Model of CadovaCPP: the polygon tree built from a Clipper2 union        *)
(* (PolygonNode::FromPolygons / NodeFromClipperTree / PolygonNode::Destroy)*)
(* and the bulk mesh read-out (BulkReadMesh).                              *)
(*                                                                         *)
(* Two specifications share the variables:                                 *)
(*   SpecForest  - a caller that builds and destroys polygon trees;        *)
(*   SpecExport  - a caller that runs BulkReadMesh on a solid.             *)
(* The clip engine (Clipper2) and the solid kernel (manifold) are outside  *)
(* the repository; they appear as nondeterministic oracles constrained by  *)
(* the shape of the values they hand to the code.                          *)
(***************************************************************************)
EXTENDS Integers, Sequences, FiniteSets, TLC

\* ------------------------------------------------------------------ bounds
MaxNodes == 3       \* loops in a clip-engine result tree (the root excluded)
MaxInput == 2       \* polygons passed to FromPolygons
MaxVert == 4        \* vertices of a solid
MaxExtraProp == 1   \* per-vertex channels beyond the position
MaxTri == 2         \* triangles of a solid
MaxEmptyRuns == 1   \* originals that contribute no triangle to a mesh
MaxNullCalls == 1   \* Destroy(nullptr) calls that are counted

\* --------------------------------------------------------------- constants
nullptr == 0
PositionProps == 3
TriStride == 3

VARIABLES
    \* --- polygon tree
    inputPolygons,  \* argument of the latest FromPolygons call
    unionStatus,    \* how the clip engine's union ended in that call
    tree,           \* the PolyTreeD the engine filled in that call
    heap,           \* PolygonNode objects by address; Free where none lives
    root,           \* pointer the caller got from FromPolygons
    fstate,         \* caller: "none", "held", "raised", "destroyed", "undefined"
    built,          \* heap as it was when FromPolygons returned
    released,       \* addresses in the order operator delete freed them
    destroyCalls,   \* Destroy calls on the pointer FromPolygons returned
    nullCalls,      \* Destroy calls on nullptr
    \* --- mesh read-out
    man,            \* the solid BulkReadMesh is given
    sinks,          \* the readers that are not NULL in the current call
    pc,             \* position inside BulkReadMesh
    mesh,           \* the local MeshGL64, NoMesh outside a call
    extractions,    \* GetMeshGL64 calls made by the current call
    calls           \* per reader: the argument lists it was invoked with

forestVars == <<inputPolygons, unionStatus, tree, heap, root, fstate, built,
                released, destroyCalls, nullCalls>>
exportVars == <<man, sinks, pc, mesh, extractions, calls>>
vars == <<inputPolygons, unionStatus, tree, heap, root, fstate, built,
          released, destroyCalls, nullCalls, man, sinks, pc, mesh, extractions, calls>>

\* =================================================================== Point
Point(x_, y_) == [x |-> x_, y |-> y_]

P00 == Point(0, 0)
P10 == Point(1, 0)
P01 == Point(0, 1)
P11 == Point(1, 1)

\* ============================================================ PolygonNode
Free == [free |-> TRUE]
HeapSize == MaxNodes + 1
Addr == 1..HeapSize

PolygonNode(polygon_) == [polygon |-> polygon_, children |-> <<>>]

\* operator new: an address at which no object lives
New(h) == CHOOSE a \in Addr : h[a] = Free /\ \A b \in Addr : h[b] = Free => a <= b

\* ============================================ clip engine (Clipper2) values
\* A PolyTreeD: node 0 is the tree object itself (no loop); nodes 1..n carry
\* one loop each; parent[i] < i, and a node's children are ordered by index.
NullNode == -1

LoopA == <<P00, P10, P01>>
LoopB == <<P00, P10, P11, P01>>
Loops == {LoopA, LoopB}

EmptyTree == [parent |-> <<>>, loop |-> <<>>]

ParentSeqs(n) == {p \in [1..n -> 0..(n - 1)] : \A i \in 1..n : p[i] < i}

TreesOfSize(n) == {[parent |-> p, loop |-> l] : p \in ParentSeqs(n), l \in [1..n -> Loops]}

EngineTrees == UNION {TreesOfSize(n) : n \in 0..MaxNodes}

NodeCount(t) == Len(t.parent)

\* node->Polygon()
Polygon(t, node) == IF node = 0 THEN <<>> ELSE t.loop[node]

RECURSIVE ChildsFrom(_, _, _)
ChildsFrom(t, node, j) ==
    IF j > NodeCount(t) THEN <<>>
    ELSE IF t.parent[j] = node THEN <<j>> \o ChildsFrom(t, node, j + 1)
    ELSE ChildsFrom(t, node, j + 1)

\* the children of a node, in iteration order (begin()..end())
Childs(t, node) == ChildsFrom(t, node, 1)

RECURSIVE Level(_, _)
Level(t, node) == IF node = 0 THEN 0 ELSE 1 + Level(t, t.parent[node])

\* PolyPath::IsHole: level 2, 4, ... of the engine's tree
IsHole(t, node) == Level(t, node) > 0 /\ Level(t, node) % 2 = 0

\* ===================================================== NodeFromClipperTree
CopyPoints(path) == [k \in 1..Len(path) |-> Point(path[k].x, path[k].y)]

RECURSIVE NodeFromClipperTree(_, _, _)
RECURSIVE ConvertChildren(_, _, _, _, _)
RECURSIVE ConvertChildren_reversed(_, _, _, _, _)
RECURSIVE ConvertChildren_twice(_, _, _, _, _)

\* variant: each child pointer is inserted at the front of the list
ConvertChildren_reversed(t, kids, k, h, result) ==
    IF k > Len(kids) THEN h
    ELSE LET sub == NodeFromClipperTree(t, kids[k], h)
             h2 == [sub.heap EXCEPT ![result].children = <<sub.ptr>> \o @]
         IN ConvertChildren_reversed(t, kids, k + 1, h2, result)

\* variant: each child pointer is pushed twice
ConvertChildren_twice(t, kids, k, h, result) ==
    IF k > Len(kids) THEN h
    ELSE LET sub == NodeFromClipperTree(t, kids[k], h)
             h2 == [sub.heap EXCEPT ![result].children = Append(Append(@, sub.ptr), sub.ptr)]
         IN ConvertChildren_twice(t, kids, k + 1, h2, result)

\* the loop of lines 15-17: result->children.push_back(NodeFromClipperTree(child))
ConvertChildren(t, kids, k, h, result) ==
    IF k > Len(kids) THEN h
    ELSE LET sub == NodeFromClipperTree(t, kids[k], h)
             h2 == [sub.heap EXCEPT ![result].children = Append(@, sub.ptr)]
         IN ConvertChildren(t, kids, k + 1, h2, result)

\* variant: the tree object is skipped when it has a child, so that the first
\* outer loop becomes the node returned
NodeFromClipperTree_skipRoot(t, node, h) ==
    IF node = NullNode THEN [heap |-> h, ptr |-> nullptr]
    ELSE LET from == IF node = 0 /\ Childs(t, 0) # <<>> THEN Childs(t, 0)[1] ELSE node
             polygon == CopyPoints(Polygon(t, from))
             result == New(h)
             h1 == [h EXCEPT ![result] = PolygonNode(polygon)]
         IN [heap |-> ConvertChildren(t, Childs(t, from), 1, h1, result),
             ptr |-> result]

\* variant: a node without loop and without children converts to nullptr
NodeFromClipperTree_nullWhenEmpty(t, node, h) ==
    IF node = NullNode \/ (Polygon(t, node) = <<>> /\ Childs(t, node) = <<>>)
    THEN [heap |-> h, ptr |-> nullptr]
    ELSE LET polygon == CopyPoints(Polygon(t, node))
             result == New(h)
             h1 == [h EXCEPT ![result] = PolygonNode(polygon)]
         IN [heap |-> ConvertChildren(t, Childs(t, node), 1, h1, result),
             ptr |-> result]

NodeFromClipperTree(t, node, h) ==
    IF node = NullNode THEN [heap |-> h, ptr |-> nullptr]
    ELSE LET polygon == CopyPoints(Polygon(t, node))
             result == New(h)
             h1 == [h EXCEPT ![result] = PolygonNode(polygon)]
         IN [heap |-> ConvertChildren(t, Childs(t, node), 1, h1, result),
             ptr |-> result]

\* ================================================================ BooleanOp
DegeneratePoly == <<P00, P10>>
InPolys == {<<>>, DegeneratePoly, LoopA}

InputSets == UNION {[1..n -> InPolys] : n \in 0..MaxInput}

\* lines 42-52: the PathsD handed to the engine
ToPathsD(polys) == [i \in 1..Len(polys) |-> [k \in 1..Len(polys[i]) |-> Point(polys[i][k].x, polys[i][k].y)]]

HasArea(paths) == \E i \in 1..Len(paths) : Len(paths[i]) >= 3

HasPoints(paths) == \E i \in 1..Len(paths) : Len(paths[i]) >= 1

\* What BooleanOp(Union, Positive, paths, {}, tree, 8) can leave behind.
\*   "ok":     tree holds the union; no loop at all when no path has area
\*   "failed": the engine's Execute reported failure; BooleanOp returns
\*             void, the tree stays cleared
\*   "thrown": the engine raised an exception
\* A union over no point at all has nothing to fail on.
BooleanOp(paths) ==
    {[status |-> "ok", tree |-> t] : t \in IF HasArea(paths) THEN EngineTrees ELSE {EmptyTree}}
    \cup (IF HasPoints(paths)
          THEN {[status |-> "failed", tree |-> EmptyTree], [status |-> "thrown", tree |-> EmptyTree]}
          ELSE {})

\* ================================================================== delete
RECURSIVE Delete(_, _, _)
RECURSIVE DeleteChildren(_, _, _, _)

\* variant: a destructor that leaves the children alone
DeleteChildren_none(h, log, kids, k) == [heap |-> h, released |-> log]

\* ~PolygonNode, lines 33-37: for (auto* child : children) delete child
DeleteChildren(h, log, kids, k) ==
    IF k > Len(kids) THEN [heap |-> h, released |-> log]
    ELSE LET s == Delete(h, log, kids[k])
         IN DeleteChildren(s.heap, s.released, kids, k + 1)

\* delete p: nothing for nullptr; else the destructor, then the storage
Delete(h, log, p) ==
    IF p = nullptr THEN [heap |-> h, released |-> log]
    ELSE IF h[p] = Free THEN [heap |-> h, released |-> Append(log, p)]
    ELSE LET s == DeleteChildren(h, log, h[p].children, 1)
         IN [heap |-> [s.heap EXCEPT ![p] = Free], released |-> Append(s.released, p)]

\* ============================================================ forest actions
EmptyHeap == [a \in Addr |-> Free]

ForestAtStart ==
    /\ inputPolygons = <<>>
    /\ unionStatus = "none"
    /\ tree = EmptyTree
    /\ heap = EmptyHeap
    /\ root = nullptr
    /\ fstate = "none"
    /\ built = EmptyHeap
    /\ released = <<>>
    /\ destroyCalls = 0
    /\ nullCalls = 0

\* PolygonNode::FromPolygons; the caller holds at most one tree at a time
FromPolygons(polys, outcome) ==
    /\ fstate \in {"none", "raised"}
    /\ outcome \in BooleanOp(ToPathsD(polys))
    /\ inputPolygons' = polys
    /\ unionStatus' = outcome.status
    /\ tree' = outcome.tree
    /\ released' = <<>>
    /\ destroyCalls' = 0
    /\ UNCHANGED nullCalls
    /\ IF outcome.status = "thrown"
       THEN /\ heap' = heap
            /\ root' = nullptr
            /\ built' = heap
            /\ fstate' = "raised"
       ELSE LET r == NodeFromClipperTree(outcome.tree, 0, heap)
            IN /\ heap' = r.heap
               /\ root' = r.ptr
               /\ built' = r.heap
               /\ fstate' = "held"
    /\ UNCHANGED exportVars

\* PolygonNode::Destroy(root) on the tree the caller holds
DestroyRoot ==
    /\ fstate = "held"
    /\ LET s == Delete(heap, released, root)
       IN /\ heap' = s.heap
          /\ released' = s.released
    /\ destroyCalls' = destroyCalls + 1
    /\ fstate' = "destroyed"
    /\ UNCHANGED <<inputPolygons, unionStatus, tree, root, built, nullCalls>>
    /\ UNCHANGED exportVars

\* PolygonNode::Destroy(nullptr)
DestroyNull ==
    /\ fstate \in {"none", "held", "raised", "destroyed"}
    /\ nullCalls < MaxNullCalls
    /\ nullCalls' = nullCalls + 1
    /\ LET s == Delete(heap, released, nullptr)
       IN /\ heap' = s.heap
          /\ released' = s.released
    /\ UNCHANGED <<inputPolygons, unionStatus, tree, root, fstate, built, destroyCalls>>
    /\ UNCHANGED exportVars

\* PolygonNode::Destroy(root) a second time: the pointer dangles, the
\* behaviour is undefined and the model follows the program no further
DestroyAgain ==
    /\ fstate = "destroyed"
    /\ root # nullptr
    /\ fstate' = "undefined"
    /\ destroyCalls' = destroyCalls + 1
    /\ UNCHANGED <<inputPolygons, unionStatus, tree, heap, root, built, released, nullCalls>>
    /\ UNCHANGED exportVars

\* ================================================== solid kernel (manifold)
\* A solid as the kernel holds it: numVert vertices with 3 + extraProp
\* channels each, triangles as index triples, the triangles cut into runs
\* (cuts: the triangles at which a new original starts, triangle 0 aside),
\* and emptyRuns originals that contribute no triangle.
TriangleAt(a, nv) == <<a, (a + 1) % nv, (a + 2) % nv>>

TriangleLists(nv) ==
    IF nv < 3 THEN {<<>>}
    ELSE UNION {[1..n -> {TriangleAt(a, nv) : a \in 0..(nv - 1)}] : n \in 0..MaxTri}

Solids ==
    {[numVert |-> nv, extraProp |-> ep, tris |-> ts, cuts |-> cs, emptyRuns |-> er] :
        nv \in 0..MaxVert, ep \in 0..MaxExtraProp, ts \in UNION {TriangleLists(v) : v \in 0..MaxVert},
        cs \in SUBSET (1..(MaxTri - 1)), er \in 0..MaxEmptyRuns}

WellFormedSolid(m) ==
    /\ m.tris \in TriangleLists(m.numVert)
    /\ m.cuts \subseteq 1..(Len(m.tris) - 1)

RECURSIVE Flatten(_)
Flatten(ts) == IF ts = <<>> THEN <<>> ELSE Head(ts) \o Flatten(Tail(ts))

RECURSIVE Ascending(_)
Ascending(S) ==
    IF S = {} THEN <<>>
    ELSE LET lo == CHOOSE x \in S : \A y \in S : x <= y
         IN <<lo>> \o Ascending(S \ {lo})

\* Manifold::GetMeshGL64: the flattened buffers.  One run is opened at each
\* triangle where the original changes, one more (starting at the end) per
\* original without triangles, and the end of the triangle buffer closes the
\* list; run starts count triVerts entries, not triangles.
GetMeshGL64(m) ==
    LET numTri == Len(m.tris)
        starts == Ascending((IF numTri > 0 THEN {0} ELSE {}) \cup m.cuts)
        opened == [i \in 1..Len(starts) |-> TriStride * starts[i]]
                      \o [i \in 1..m.emptyRuns |-> TriStride * numTri]
    IN [numProp |-> PositionProps + m.extraProp,
        vertProperties |-> [k \in 1..(m.numVert * (PositionProps + m.extraProp)) |-> 0],
        triVerts |-> Flatten(m.tris),
        runIndex |-> Append(opened, TriStride * numTri),
        runOriginalID |-> [i \in 1..Len(opened) |-> i - 1]]

\* MeshGL64::NumVert, MeshGL64::NumTri
NumVert(g) == Len(g.vertProperties) \div g.numProp
NumTri(g) == Len(g.triVerts) \div TriStride

\* ============================================================== BulkReadMesh
Readers == {"property", "triangle", "originalID"}
NoMesh == [none |-> TRUE]
NoCalls == [s \in Readers |-> <<>>]

ExportAtStart ==
    /\ man = [numVert |-> 0, extraProp |-> 0, tris |-> <<>>, cuts |-> {}, emptyRuns |-> 0]
    /\ sinks = {}
    /\ pc = "idle"
    /\ mesh = NoMesh
    /\ extractions = 0
    /\ calls = NoCalls

ExportOfAnySolid ==
    /\ man \in {m \in Solids : WellFormedSolid(m)}
    /\ sinks = {}
    /\ pc = "idle"
    /\ mesh = NoMesh
    /\ extractions = 0
    /\ calls = NoCalls

\* what each reader is handed (lines 71, 74, 77)
PropertyArgs(g) == [values |-> g.vertProperties, vertexCount |-> NumVert(g), propertyCount |-> g.numProp]

\* variant: the length of the buffer is passed as the triangle count
TriangleArgs_length(g) == [values |-> g.triVerts, count |-> Len(g.triVerts)]

TriangleArgs(g) == [values |-> g.triVerts, count |-> NumTri(g)]

\* variant: one size is passed for both arrays
OriginalIDArgs_oneCount(g) ==
    [runIndex |-> g.runIndex, runIndexCount |-> Len(g.runOriginalID),
     runOriginalIDs |-> g.runOriginalID, originalIDCount |-> Len(g.runOriginalID)]

OriginalIDArgs(g) ==
    [runIndex |-> g.runIndex, runIndexCount |-> Len(g.runIndex),
     runOriginalIDs |-> g.runOriginalID, originalIDCount |-> Len(g.runOriginalID)]

\* variant: the mesh is extracted only when some reader was passed
Extractions_whenRequested(S) == IF S = {} THEN 0 ELSE 1

\* how many times line 68 extracts the mesh, given the readers passed
Extractions(S) == 1

\* entry and line 68: auto mesh = man.GetMeshGL64()
Enter(S) ==
    /\ pc \in {"idle", "done"}
    /\ sinks' = S
    /\ mesh' = IF Extractions(S) > 0 THEN GetMeshGL64(man) ELSE NoMesh
    /\ extractions' = Extractions(S)
    /\ calls' = NoCalls
    /\ pc' = "L70"
    /\ UNCHANGED man
    /\ UNCHANGED forestVars

\* variant: every test looks at propertyReader
Requested_property(reader, S) == "property" \in S

\* the test of line 70, 73 or 76
Requested(reader, S) == reader \in S

\* lines 70-72
ReadProperties ==
    /\ pc = "L70"
    /\ calls' = IF Requested("property", sinks)
                THEN [calls EXCEPT !["property"] = Append(@, PropertyArgs(mesh))]
                ELSE calls
    /\ pc' = "L73"
    /\ UNCHANGED <<man, sinks, mesh, extractions>>
    /\ UNCHANGED forestVars

\* lines 73-75
ReadTriangles ==
    /\ pc = "L73"
    /\ calls' = IF Requested("triangle", sinks)
                THEN [calls EXCEPT !["triangle"] = Append(@, TriangleArgs(mesh))]
                ELSE calls
    /\ pc' = "L76"
    /\ UNCHANGED <<man, sinks, mesh, extractions>>
    /\ UNCHANGED forestVars

\* lines 76-78
ReadOriginalIDs ==
    /\ pc = "L76"
    /\ calls' = IF Requested("originalID", sinks)
                THEN [calls EXCEPT !["originalID"] = Append(@, OriginalIDArgs(mesh))]
                ELSE calls
    /\ pc' = "L79"
    /\ UNCHANGED <<man, sinks, mesh, extractions>>
    /\ UNCHANGED forestVars

\* line 79: the local mesh goes out of scope
Return ==
    /\ pc = "L79"
    /\ pc' = "done"
    /\ mesh' = NoMesh
    /\ UNCHANGED <<man, sinks, extractions, calls>>
    /\ UNCHANGED forestVars

NextForest ==
    \/ \E polys \in InputSets : \E outcome \in BooleanOp(ToPathsD(polys)) : FromPolygons(polys, outcome)
    \/ DestroyRoot
    \/ DestroyNull
    \/ DestroyAgain

NextExport ==
    \/ \E S \in SUBSET Readers : Enter(S)
    \/ ReadProperties
    \/ ReadTriangles
    \/ ReadOriginalIDs
    \/ Return

\* no tree built yet, no BulkReadMesh call made
InitForest == ForestAtStart /\ ExportAtStart

\* some solid exists, no BulkReadMesh call made yet
InitExport == ExportOfAnySolid /\ ForestAtStart

SpecForest == InitForest /\ [][NextForest]_vars

SpecExport == InitExport /\ [][NextExport]_vars

\* ================================================================ properties
Live(h) == {a \in Addr : h[a] # Free}

ChildSet(h, a) == IF h[a] = Free THEN {} ELSE {h[a].children[k] : k \in 1..Len(h[a].children)}

RECURSIVE ReachN(_, _, _)
ReachN(h, S, n) ==
    IF n = 0 THEN S
    ELSE ReachN(h, S \cup ((UNION {ChildSet(h, a) : a \in S \cap Addr}) \cap Addr), n - 1)

\* the nodes reachable from p through children lists
Reach(h, p) == ReachN(h, {p} \cap Addr, HeapSize)

\* the nodes reachable from the children of p
Below(h, p) == ReachN(h, ChildSet(h, p) \cap Addr, HeapSize)

\* how often a appears in the children lists of the nodes in R
Occurrences(h, R, a) ==
    Cardinality({<<b, k>> \in R \X (1..(2 * HeapSize)) :
                    h[b] # Free /\ k <= Len(h[b].children) /\ h[b].children[k] = a})

Count(log, a) == Cardinality({i \in 1..Len(log) : log[i] = a})

InCall == {"L70", "L73", "L76", "L79"}

\* ------------------------------------------------------------------- C1
\* C1: in every BulkReadMesh call, for each of the 8 combinations of readers
\* and every solid (the empty one included), a reader that was passed is
\* invoked exactly once before the call returns, a reader that was not
\* passed is never invoked, and no reader is invoked outside the call.
C1_DeliveredOnce ==
    /\ [](/\ \A s \in Readers : Len(calls[s]) <= 1
          /\ \A s \in Readers \ sinks : calls[s] = <<>>
          /\ pc \in {"L79", "done"} => \A s \in sinks : Len(calls[s]) = 1)
    /\ [][\A s \in Readers : Len(calls'[s]) > Len(calls[s]) => pc \in InCall /\ pc' \in InCall]_vars

C1_Witness ==
    /\ pc = "done"
    /\ man.numVert = 0
    /\ sinks = {"property", "originalID"}
    /\ Len(calls["property"]) = 1
    /\ Len(calls["originalID"]) = 1
    /\ calls["triangle"] = <<>>
    /\ calls["property"][1].values = <<>>

\* ------------------------------------------------------------------- C2
\* C2 as stated: a channel that is not requested costs no extraction; with
\* no reader passed, the call extracts nothing from the kernel and issues
\* no callback.
C2_NoExtractionWithoutReader ==
    (pc # "idle" /\ sinks = {}) => (extractions = 0 /\ calls = NoCalls)

\* C2 amended: every call extracts the whole mesh from the kernel exactly
\* once, all three buffers, whichever readers were passed; with no reader
\* passed that extraction still happens and no callback is issued.
C2_ExtractsOnceAlways ==
    /\ pc # "idle" => extractions = 1
    /\ pc \in InCall => mesh = GetMeshGL64(man)
    /\ (pc # "idle" /\ sinks = {}) => calls = NoCalls

C2_Witness ==
    /\ pc = "done"
    /\ sinks = {}
    /\ extractions = 1
    /\ Len(man.tris) = 2
    /\ calls = NoCalls

\* ------------------------------------------------------------------- C8
\* C8: the dimensions handed to the readers describe the buffers exactly:
\* the property buffer has vertexCount * propertyCount values, the triangle
\* buffer has count * 3 values, and every triangle value is below the
\* vertexCount handed to the property reader.
C8_DimensionsExact ==
    /\ \A i \in 1..Len(calls["property"]) :
          LET c == calls["property"][i]
          IN /\ Len(c.values) = c.vertexCount * c.propertyCount
             /\ c.vertexCount = man.numVert
    /\ \A i \in 1..Len(calls["triangle"]) :
          LET c == calls["triangle"][i]
          IN /\ Len(c.values) = c.count * 3
             /\ c.count = Len(man.tris)
             /\ \A k \in 1..Len(c.values) : c.values[k] < man.numVert
             /\ \A j \in 1..Len(calls["property"]) :
                   \A k \in 1..Len(c.values) : c.values[k] < calls["property"][j].vertexCount

C8_Witness ==
    /\ pc = "done"
    /\ Len(calls["property"]) = 1
    /\ Len(calls["triangle"]) = 1
    /\ calls["property"][1].vertexCount = 4
    /\ calls["property"][1].propertyCount = 3
    /\ Len(calls["property"][1].values) = 12
    /\ calls["triangle"][1].count = 2
    /\ Len(calls["triangle"][1].values) = 6

\* ------------------------------------------------------------------- C7
\* C7 as stated: the originalID reader gets as many origin identifiers as
\* run starts; the run starts are strictly ascending triangle indices, each
\* bounded by the triangle count; the end of the last run is not an entry.
C7_EqualCounts ==
    \A i \in 1..Len(calls["originalID"]) :
        LET c == calls["originalID"][i]
        IN /\ c.originalIDCount = c.runIndexCount
           /\ \A a, b \in 1..c.runIndexCount : a < b => c.runIndex[a] < c.runIndex[b]
           /\ \A a \in 1..c.runIndexCount : c.runIndex[a] <= Len(man.tris)

\* C7 amended: the reader gets one run index more than origin identifiers;
\* the run indices are non-decreasing offsets into the flattened triangle
\* buffer (multiples of 3, at most 3 * triangleCount), and the end of the
\* last run is delivered as the last entry, equal to 3 * triangleCount.
C7_OneMoreRunIndex ==
    \A i \in 1..Len(calls["originalID"]) :
        LET c == calls["originalID"][i]
        IN /\ c.runIndexCount = c.originalIDCount + 1
           /\ Len(c.runIndex) = c.runIndexCount
           /\ Len(c.runOriginalIDs) = c.originalIDCount
           /\ \A a, b \in 1..c.runIndexCount : a < b => c.runIndex[a] <= c.runIndex[b]
           /\ \A a \in 1..c.runIndexCount :
                 c.runIndex[a] % 3 = 0 /\ c.runIndex[a] <= 3 * Len(man.tris)
           /\ c.runIndex[c.runIndexCount] = 3 * Len(man.tris)

C7_Witness ==
    /\ Len(calls["originalID"]) = 1
    /\ Len(man.tris) = 2
    /\ calls["originalID"][1].runIndex = <<0, 3, 6, 6>>
    /\ calls["originalID"][1].originalIDCount = 3

\* ------------------------------------------------------------------- C9
RECURSIVE Equivalent(_, _, _, _)
Equivalent(t, node, h, p) ==
    /\ p \in Addr
    /\ h[p] # Free
    /\ h[p].polygon = Polygon(t, node)
    /\ Len(h[p].children) = Len(Childs(t, node))
    /\ \A k \in 1..Len(Childs(t, node)) : Equivalent(t, Childs(t, node)[k], h, h[p].children[k])

\* C9: the tree FromPolygons returns is structurally the engine's tree: one
\* PolygonNode per engine node, with the engine node's points in the same
\* order and as many children in the same order, at every depth; the
\* PolygonNodes hold the points themselves.
C9_SameStructure ==
    fstate = "held" =>
        /\ Equivalent(tree, 0, heap, root)
        /\ Cardinality(Live(heap)) = NodeCount(tree) + 1

C9_Witness ==
    /\ fstate = "held"
    /\ tree = [parent |-> <<0, 1, 0>>, loop |-> <<LoopA, LoopB, LoopB>>]
    /\ Len(heap[root].children) = 2
    /\ heap[heap[root].children[1]].polygon = LoopA
    /\ heap[heap[root].children[2]].polygon = LoopB
    /\ Len(heap[heap[root].children[1]].children) = 1

\* ------------------------------------------------------------------ C10
\* C10: in the structure FromPolygons returns, every node reachable from the
\* root is in the children list of exactly one parent, once (the root in
\* none), no children entry is null, and no node is below itself.
C10_ExclusiveOwnership ==
    fstate = "held" =>
        LET R == Reach(heap, root)
        IN /\ root \in Addr
           /\ \A a \in R : heap[a] # Free /\ nullptr \notin ChildSet(heap, a)
           /\ \A a \in R : ChildSet(heap, a) \subseteq Addr
           /\ \A a \in R \ {root} : Occurrences(heap, R, a) = 1
           /\ Occurrences(heap, R, root) = 0
           /\ \A a \in R : a \notin Below(heap, a)

C10_Witness ==
    /\ fstate = "held"
    /\ Cardinality(Reach(heap, root)) = 4
    /\ Len(heap[root].children) = 2
    /\ \E a \in Addr \ {root} : heap[a] # Free /\ Len(heap[a].children) = 1

\* ------------------------------------------------------------------- C3
RECURSIVE ForestParity(_, _, _, _, _)
ForestParity(t, node, h, p, d) ==
    /\ p \in Addr
    /\ h[p] # Free
    /\ d = 0 => (Level(t, node) = 1 /\ h[p].polygon = t.loop[node])
    /\ d % 2 = 1 => IsHole(t, node)
    /\ d % 2 = 0 => (node # 0 /\ ~IsHole(t, node))
    /\ Len(h[p].children) = Len(Childs(t, node))
    /\ \A k \in 1..Len(Childs(t, node)) :
          ForestParity(t, Childs(t, node)[k], h, h[p].children[k], d + 1)

\* C3 as stated: the returned structure has no super-root; its depth-0 nodes
\* are the filled outer loops of the union with their points, odd depths
\* are holes and even depths filled islands.
C3_NoSuperRoot ==
    (fstate = "held" /\ unionStatus = "ok" /\ NodeCount(tree) > 0) =>
        ForestParity(tree, 0, heap, root, 0)

RECURSIVE SuperRootParity(_, _, _, _, _)
SuperRootParity(t, node, h, p, d) ==
    /\ p \in Addr
    /\ h[p] # Free
    /\ d = 0 => (node = 0 /\ h[p].polygon = <<>>)
    /\ d >= 1 => (h[p].polygon = t.loop[node] /\ h[p].polygon # <<>>)
    /\ d = 1 => Level(t, node) = 1
    /\ (d >= 1 /\ d % 2 = 1) => ~IsHole(t, node)
    /\ (d >= 1 /\ d % 2 = 0) => IsHole(t, node)
    /\ Len(h[p].children) = Len(Childs(t, node))
    /\ \A k \in 1..Len(Childs(t, node)) :
          SuperRootParity(t, Childs(t, node)[k], h, h[p].children[k], d + 1)

\* C3 amended: FromPolygons returns one node, a super-root at depth 0 that
\* carries no loop (empty polygon); the nodes at depth 1 are the filled
\* outer loops of the union with their points, even depths from 2 on are
\* holes and odd depths are filled islands.
C3_SuperRootThenParity ==
    fstate = "held" => SuperRootParity(tree, 0, heap, root, 0)

C3_Witness ==
    /\ fstate = "held"
    /\ unionStatus = "ok"
    /\ tree.parent = <<0, 1, 2>>
    /\ heap[root].polygon = <<>>
    /\ Len(heap[root].children) = 1
    /\ heap[heap[root].children[1]].polygon # <<>>
    /\ Len(heap[heap[heap[root].children[1]].children[1]].children) = 1

\* ------------------------------------------------------------------- C4
\* C4 as stated: with no polygon, or with polygons whose union is empty, the
\* result contains no PolygonNode at all, and no error is signalled.
C4_EmptyForest ==
    (fstate = "held" /\ unionStatus = "ok" /\ ~HasArea(ToPathsD(inputPolygons))) =>
        Live(heap) = {}

\* C4 amended: with no polygon, or with polygons whose union is empty, the
\* result is exactly one PolygonNode, the super-root, with an empty polygon
\* and an empty children list; FromPolygons raises no error of its own.
C4_LoneSuperRoot ==
    /\ (fstate = "held" /\ NodeCount(tree) = 0) =>
          /\ root \in Addr
          /\ Live(heap) = {root}
          /\ heap[root] = PolygonNode(<<>>)
    /\ (fstate = "held" /\ unionStatus = "ok" /\ ~HasArea(ToPathsD(inputPolygons))) =>
          NodeCount(tree) = 0
    /\ fstate = "raised" => unionStatus = "thrown"
    /\ (fstate # "none" /\ ~HasPoints(ToPathsD(inputPolygons))) => fstate # "raised"

C4_Witness ==
    /\ fstate = "held"
    /\ unionStatus = "ok"
    /\ inputPolygons = <<DegeneratePoly>>
    /\ root \in Addr
    /\ Live(heap) = {root}

\* ------------------------------------------------------------------- C5
\* C5: one Destroy of the root FromPolygons returned releases every node of
\* the tree exactly once, each child before the node that owns it, and
\* nothing else; Destroy(nullptr) releases nothing.
C5_ReleasesAllOnce ==
    /\ (fstate = "destroyed" /\ destroyCalls = 1) =>
          /\ \A a \in Live(built) : Count(released, a) = 1
          /\ \A i \in 1..Len(released) : released[i] \in Live(built)
          /\ Live(heap) = {}
          /\ released[Len(released)] = root
          /\ \A a \in Live(built) : \A c \in ChildSet(built, a) :
                \A i, j \in 1..Len(released) :
                    (released[i] = a /\ released[j] = c) => j < i
    /\ fstate \in {"none", "held", "raised"} => (released = <<>> /\ heap = built)

C5_Witness ==
    /\ fstate = "destroyed"
    /\ destroyCalls = 1
    /\ nullCalls = 1
    /\ tree.parent = <<0, 1, 0>>
    /\ Len(released) = 4
    /\ Live(heap) = {}

\* ------------------------------------------------------------------- C6
\* C6: when the engine's union fails, FromPolygons hands the failure to the
\* caller and never returns a forest that looks like a successful one.
C6_FailurePropagated ==
    unionStatus = "failed" => fstate \notin {"held", "destroyed", "undefined"}

====
